---- MODULE Spec2Model ----
(***************************************************************************)
(* Model of the healthcheck service: configuration loading, the scraper    *)
(* factory, the cloudflared tunnel scraper, the healthcheck Manager        *)
(* (Initialize / Start / Stop, the supervising healthcheckLoop, the        *)
(* per-scraper ticker goroutines, runSingleHealthcheck, pingSuccessURL)    *)
(* and the process entry point.                                            *)
(*                                                                         *)
(* Goroutines are interleaved one step at a time.  Time is a discrete      *)
(* clock of seconds; a ticker delivers into a one-slot channel and drops   *)
(* a tick whose slot is still full, as time.Ticker does.                   *)
(***************************************************************************)
EXTENDS Integers, Sequences, FiniteSets, TLC

\* ------------------------------------------------------------------ bounds

\* Longest scraper list drawn for the configuration.
MaxSpecs == 2

\* Last second of the clock.
MaxTime == 1

\* ------------------------------------------------------- program constants

CloudflaredType == "cloudflared-tunnel-connector"

\* NewCloudflaredTunnelScraper's default interval.
ScraperDefaultInterval == 30

\* healthcheckLoop's own fallback interval.
LoopDefaultInterval == 30

StatusOK == 200

\* The Timeout of the scraper's http.Client, in seconds.
ClientTimeout == 10

\* The deadline runSingleHealthcheck gives the context of a Scrape, in seconds.
CheckDeadline == 30

\* An http.Client Timeout of zero: no timeout.
NoTimeout == 0

\* An instant that never comes: the deadline of context.Background(), the
\* arrival of an answer the transport never gives.
Never == -1

\* --------------------------------------------------------------- strings

\* A formatted message is the sequence of its pieces; %d is ToString.
Contains(msg, sub) ==
  \E i \in 1..(Len(msg) + 1) :
     /\ i + Len(sub) - 1 <= Len(msg)
     /\ SubSeq(msg, i, i + Len(sub) - 1) = sub

\* A nil error.
Nil == << >>

\* ---------------------------------------------------------- configuration

\* The scraper entries the configuration is drawn from.
ScraperConfigs ==
  { [Type |-> CloudflaredType, ScrapeURL |-> "http://a/ready",
     PingURL |-> "http://hc/a", ScrapeIntervalSeconds |-> 1],
    [Type |-> CloudflaredType, ScrapeURL |-> "http://b/ready",
     PingURL |-> "", ScrapeIntervalSeconds |-> 0],
    [Type |-> CloudflaredType, ScrapeURL |-> ":bad",
     PingURL |-> "http://hc/c", ScrapeIntervalSeconds |-> 1],
    [Type |-> "unknown-scraper-type", ScrapeURL |-> "http://u/ready",
     PingURL |-> "http://hc/u", ScrapeIntervalSeconds |-> 1],
    [Type |-> "", ScrapeURL |-> "http://v/ready",
     PingURL |-> "", ScrapeIntervalSeconds |-> -10] }

\* The lists of at most MaxSpecs pairwise distinct entries, in any order.
ConfigLists ==
  UNION { { l \in [1..n -> ScraperConfigs] :
              \A i, j \in 1..n : l[i] = l[j] => i = j } : n \in 0..MaxSpecs }

\* Values of the HEALTHCHECK_SCRAPERS environment variable: unset (or
\* empty), text that is not a JSON array of entries, or a JSON array.
EnvValues ==
  { [set |-> FALSE, wellFormed |-> TRUE, list |-> << >>],
    [set |-> TRUE, wellFormed |-> FALSE, list |-> << >>] }
  \cup { [set |-> TRUE, wellFormed |-> TRUE, list |-> l] : l \in ConfigLists }

\* config.NewConfig: the parsed list and the error.
NewConfig(e) ==
  IF e.set /\ ~e.wellFormed
    THEN [ok |-> FALSE, Scrapers |-> << >>,
          err |-> <<"failed to parse HEALTHCHECK_SCRAPERS JSON: ", "syntax">>]
    ELSE [ok |-> TRUE, Scrapers |-> IF e.set THEN e.list ELSE << >>,
          err |-> Nil]

\* ------------------------------------------------------- scraper, factory

\* Mutant of NewCloudflaredTunnelScraper: the interval is taken as given.
NewScraperKeepsInterval(scrapeURL, pingURL, scrapeIntervalSeconds) ==
  [scrapeURL |-> scrapeURL,
   pingURL |-> pingURL,
   scrapeIntervalSeconds |-> scrapeIntervalSeconds,
   timeout |-> ClientTimeout]

NewCloudflaredTunnelScraper(scrapeURL, pingURL, scrapeIntervalSeconds) ==
  [scrapeURL |-> scrapeURL,
   pingURL |-> pingURL,
   scrapeIntervalSeconds |->
     IF scrapeIntervalSeconds <= 0 THEN ScraperDefaultInterval
                                   ELSE scrapeIntervalSeconds,
   timeout |-> ClientTimeout]

ScraperType(c) == CloudflaredType
GetPingURL(c) == c.pingURL
GetScrapeInterval(c) == c.scrapeIntervalSeconds

\* Mutant of CreateScraper: a type that is not known gets the one scraper
\* there is.
CreateScraperDefaultCase(sc) ==
  [scraper |-> <<NewCloudflaredTunnelScraper(sc.ScrapeURL, sc.PingURL,
                                             sc.ScrapeIntervalSeconds)>>,
   err |-> Nil]

\* Factory.CreateScraper: scraper is a sequence of zero (nil) or one scraper.
CreateScraper(sc) ==
  IF sc.Type = CloudflaredType
    THEN [scraper |-> <<NewCloudflaredTunnelScraper(sc.ScrapeURL, sc.PingURL,
                                                  sc.ScrapeIntervalSeconds)>>,
          err |-> Nil]
    ELSE [scraper |-> << >>,
          err |-> <<"unknown scraper type: ", sc.Type>>]

\* Targets http.NewRequestWithContext rejects.
MalformedURL(u) == u = ":bad"

\* What the endpoint (or the network) answers to one GET: no connection, a
\* status other than 200, a body that is not the expected JSON, or a parsed
\* body.  headersAfter is the second, counted from the request, at which the
\* connection is refused or the response headers arrive; bodyAfter the
\* seconds from then until the body is complete; either may be Never.
Responses ==
  { [transport |-> "refused", headersAfter |-> 0, bodyAfter |-> 0,
     statusCode |-> 0, parses |-> FALSE,
     status |-> 0, readyConnections |-> 0],
    [transport |-> "ok", headersAfter |-> 0, bodyAfter |-> 0,
     statusCode |-> 500, parses |-> TRUE,
     status |-> 200, readyConnections |-> 4],
    [transport |-> "ok", headersAfter |-> 0, bodyAfter |-> 0,
     statusCode |-> 200, parses |-> FALSE,
     status |-> 0, readyConnections |-> 0] }
  \cup { [transport |-> "ok", headersAfter |-> 0, bodyAfter |-> 0,
          statusCode |-> 200, parses |-> TRUE,
          status |-> s, readyConnections |-> n] :
           s \in {200, 503}, n \in {0, 4} }

\* Whether instant t comes, and comes before the instant cutoff.
Before(t, cutoff) == t # Never /\ (cutoff = Never \/ t < cutoff)

\* a seconds, then b more.
After(a, b) == IF a = Never \/ b = Never THEN Never ELSE a + b

\* Mutant of RequestCutoff: the request is built without the caller's
\* context, only the client's Timeout bounds it.
RequestCutoffClientOnly(c, ctx) ==
  IF c.timeout = NoTimeout THEN Never ELSE c.timeout

\* The instant at which a request of scraper c under context ctx is cut
\* short: the earlier of the client's Timeout and the context's deadline.
RequestCutoff(c, ctx) ==
  LET t == IF c.timeout = NoTimeout THEN Never ELSE c.timeout
  IN IF t = Never THEN ctx
     ELSE IF ctx = Never THEN t
     ELSE IF t < ctx THEN t ELSE ctx

\* client.Do returns a response: the headers arrived before the cutoff.
DoSucceeds(c, ctx, resp) ==
  resp.transport = "ok" /\ Before(resp.headersAfter, RequestCutoff(c, ctx))

\* The error client.Do returns otherwise.
DoError(c, ctx, resp) ==
  IF Before(resp.headersAfter, RequestCutoff(c, ctx))
    THEN resp.transport
    ELSE "deadline exceeded"

\* The body is complete before the cutoff.
BodyRead(c, ctx, resp) ==
  Before(After(resp.headersAfter, resp.bodyAfter), RequestCutoff(c, ctx))

\* The error json's Decode returns: the body was cut short or is not the
\* expected JSON.
DecodeError(c, ctx, resp) ==
  IF BodyRead(c, ctx, resp) THEN "decode" ELSE "deadline exceeded"

\* Scrape once the body is decoded: the verdict on the tunnel's own report.
\* Mutant of ScrapeDecoded: the details leave the connector id out.
ScrapeDecodedOmitsConnector(c, resp) ==
  LET healthy == resp.status = 200 /\ resp.readyConnections > 0
  IN [result |-> <<[Healthy |-> healthy,
                    Message |->
                      IF healthy
                        THEN <<"Tunnel healthy with ",
                               ToString(resp.readyConnections),
                               " ready connections">>
                        ELSE <<"Tunnel unhealthy: status=",
                               ToString(resp.status),
                               ", readyConnections=",
                               ToString(resp.readyConnections)>>,
                    Details |-> [status |-> resp.status,
                                 readyConnections |-> resp.readyConnections]]>>,
      err |-> Nil]

ScrapeDecoded(c, resp) ==
  LET healthy == resp.status = 200 /\ resp.readyConnections > 0
  IN [result |-> <<[Healthy |-> healthy,
                    Message |->
                      IF healthy
                        THEN <<"Tunnel healthy with ",
                               ToString(resp.readyConnections),
                               " ready connections">>
                        ELSE <<"Tunnel unhealthy: status=",
                               ToString(resp.status),
                               ", readyConnections=",
                               ToString(resp.readyConnections)>>,
                    Details |-> [status |-> resp.status,
                                 readyConnections |-> resp.readyConnections,
                                 connectorId |-> "x"]]>>,
      err |-> Nil]

\* Mutant of ScrapeAnswered: the status code of the response is not looked
\* at, the body is decoded whatever it is.
ScrapeIgnoresStatusCode(c, ctx, resp) ==
  IF ~BodyRead(c, ctx, resp) \/ ~resp.parses
    THEN [result |-> <<[Healthy |-> FALSE,
                        Message |-> <<"Failed to parse response from ",
                                      c.scrapeURL, ": ",
                                      DecodeError(c, ctx, resp)>>,
                        Details |-> [error |-> DecodeError(c, ctx, resp)]]>>,
          err |-> Nil]
    ELSE ScrapeDecoded(c, resp)

\* Scrape from the return of client.Do with a response on.
ScrapeAnswered(c, ctx, resp) ==
  IF resp.statusCode # StatusOK
    THEN [result |-> <<[Healthy |-> FALSE,
                        Message |-> <<"HTTP status ",
                                      ToString(resp.statusCode),
                                      " from ", c.scrapeURL>>,
                        Details |-> [status_code |-> resp.statusCode]]>>,
          err |-> Nil]
  ELSE IF ~BodyRead(c, ctx, resp) \/ ~resp.parses
    THEN [result |-> <<[Healthy |-> FALSE,
                        Message |-> <<"Failed to parse response from ",
                                      c.scrapeURL, ": ",
                                      DecodeError(c, ctx, resp)>>,
                        Details |-> [error |-> DecodeError(c, ctx, resp)]]>>,
          err |-> Nil]
  ELSE ScrapeDecoded(c, resp)

\* Mutant of Scrape: an error of client.Do is returned to the caller.
ScrapeReturnsTransportError(c, ctx, resp) ==
  IF MalformedURL(c.scrapeURL)
    THEN [result |-> << >>,
          err |-> <<"failed to create request: ", "parse ", c.scrapeURL>>]
  ELSE IF ~DoSucceeds(c, ctx, resp)
    THEN [result |-> << >>,
          err |-> <<"request failed: ", DoError(c, ctx, resp)>>]
  ELSE ScrapeAnswered(c, ctx, resp)

\* CloudflaredTunnelScraper.Scrape under a context whose deadline is ctx:
\* result is a sequence of zero (nil) or one ScrapeResult.
Scrape(c, ctx, resp) ==
  IF MalformedURL(c.scrapeURL)
    THEN [result |-> << >>,
          err |-> <<"failed to create request: ", "parse ", c.scrapeURL>>]
  ELSE IF ~DoSucceeds(c, ctx, resp)
    THEN [result |-> <<[Healthy |-> FALSE,
                        Message |-> <<"Failed to connect to ", c.scrapeURL,
                                      ": ", DoError(c, ctx, resp)>>,
                        Details |-> [error |-> DoError(c, ctx, resp)]]>>,
          err |-> Nil]
  ELSE ScrapeAnswered(c, ctx, resp)

\* The seconds Scrape takes to return, Never if it does not: the request is
\* cut short at the cutoff, while client.Do waits for the headers or while
\* the body is decoded.
ScrapeElapsed(c, ctx, resp) ==
  LET cutoff == RequestCutoff(c, ctx)
      done == After(resp.headersAfter, resp.bodyAfter)
  IN IF MalformedURL(c.scrapeURL) THEN 0
     ELSE IF ~Before(resp.headersAfter, cutoff) THEN cutoff
     ELSE IF resp.transport # "ok" \/ resp.statusCode # StatusOK
       THEN resp.headersAfter
     ELSE IF ~Before(done, cutoff) THEN cutoff
     ELSE done

\* ------------------------------------------------------------------ state

VARIABLES
  env,            \* HEALTHCHECK_SCRAPERS as the process finds it
  unit,           \* what a caller of the package's functions one by one,
                  \* as its tests are, has passed and got back
  pc,             \* position of the caller (main, or a client of Manager)
  config,         \* Config.Scrapers
  scrapers,       \* Manager.scrapers
  initResult,     \* "none" until Initialize returns, then "ok" or "error"
  initErr,        \* the error Initialize returned
  stopChan,       \* TRUE once Manager.stopChan is closed
  wg,             \* Manager.wg's counter
  loopPc,         \* position of the healthcheckLoop goroutine
  loopIdx,        \* index of the next scraper healthcheckLoop ranges over
  tickerStart,    \* second at which a scraper's ticker was created, -1: none
  tickerStopped,  \* TRUE once ticker.Stop() ran
  tickBuf,        \* TRUE while a tick sits in ticker.C
  initialPc,      \* position of the goroutine of the initial healthcheck
  tickerPc,       \* position of the per-scraper ticker goroutine
  checksStarted,  \* runSingleHealthcheck invocations begun, per scraper
  unnotified,     \* healthy results (err == nil, Healthy) minus
                  \* pingSuccessURL invocations, per scraper
  pingReq,        \* url of the GET a goroutine has in flight in
                  \* pingSuccessURL, per goroutine and scraper, "": none
  now             \* seconds elapsed since Start()

vars ==
  <<env, unit, pc, config, scrapers, initResult, initErr, stopChan, wg, loopPc,
    loopIdx, tickerStart, tickerStopped, tickBuf, initialPc, tickerPc,
    checksStarted, unnotified, pingReq, now>>

mgrVars == <<scrapers, initResult, initErr>>
loopVars == <<loopPc, loopIdx>>
tickerVars == <<tickerStart, tickerStopped, tickBuf>>
countVars == <<checksStarted, unnotified, pingReq>>

\* Indices of Manager.scrapers.
Slots == 1..MaxSpecs
Probes == 1..Len(scrapers)

\* NewManager: no scrapers, an open stopChan, an empty WaitGroup.
InitManager ==
  /\ scrapers = << >>
  /\ initResult = "none"
  /\ initErr = Nil
  /\ stopChan = FALSE
  /\ wg = 0
  /\ loopPc = "none"
  /\ loopIdx = 1
  /\ tickerStart = [p \in Slots |-> -1]
  /\ tickerStopped = [p \in Slots |-> FALSE]
  /\ tickBuf = [p \in Slots |-> FALSE]
  /\ initialPc = [p \in Slots |-> "unspawned"]
  /\ tickerPc = [p \in Slots |-> "unspawned"]
  /\ checksStarted = [p \in Slots |-> 0]
  /\ unnotified = [p \in Slots |-> 0]
  /\ pingReq = [g \in {"initial", "ticker"} |-> [p \in Slots |-> ""]]
  /\ now = 0

\* No function of the package has been called on its own.
NoUnit == [step |-> "none"]

\* The process at the entry of main.
Init ==
  /\ env \in EnvValues
  /\ unit = NoUnit
  /\ pc = "load"
  /\ config = << >>
  /\ InitManager

\* ------------------------------------------------------------- Manager API

\* Mutant of InitializeFrom: an entry the factory rejects is skipped.
RECURSIVE InitializeSkipsUnknown(_, _, _)
InitializeSkipsUnknown(cfg, i, acc) ==
  IF i > Len(cfg)
    THEN [scrapers |-> acc, err |-> Nil]
    ELSE InitializeSkipsUnknown(cfg, i + 1, acc \o CreateScraper(cfg[i]).scraper)

\* The loop of Initialize from entry i on, acc being m.scrapers so far.
RECURSIVE InitializeFrom(_, _, _)
InitializeFrom(cfg, i, acc) ==
  IF i > Len(cfg)
    THEN [scrapers |-> acc, err |-> Nil]
    ELSE LET r == CreateScraper(cfg[i])
         IN IF r.err # Nil
              THEN [scrapers |-> acc,
                    err |-> <<"failed to create scraper ", cfg[i].Type, ": ">>
                            \o r.err]
              ELSE InitializeFrom(cfg, i + 1, acc \o r.scraper)

\* Manager.Initialize.
Initialize ==
  LET r == InitializeFrom(config, 1, scrapers)
  IN /\ scrapers' = r.scrapers
     /\ initErr' = r.err
     /\ initResult' = IF r.err = Nil THEN "ok" ELSE "error"

\* Manager.Start.
Start ==
  /\ wg' = wg + 1
  /\ loopPc' = "range"
  /\ loopIdx' = 1

\* Manager.Stop up to wg.Wait().
StopClose == stopChan' = TRUE

\* Mutant: Stop also waits for every goroutine that runs checks.
StopWaitsForChecks ==
  /\ wg = 0
  /\ \A p \in 1..Len(scrapers) :
       initialPc[p] = "returned" /\ tickerPc[p] = "returned"

\* Manager.Stop: wg.Wait() returns.
StopWaitReturns == wg = 0

\* ------------------------------------------------------------------- main

MainLoadConfig ==
  /\ pc = "load"
  /\ LET r == NewConfig(env)
     IN /\ config' = r.Scrapers
        /\ pc' = IF r.ok THEN "validate" ELSE "fatal"
  /\ UNCHANGED <<env, unit, mgrVars, stopChan, wg, loopVars, tickerVars,
                 initialPc, tickerPc, countVars, now>>

MainValidate ==
  /\ pc = "validate"
  /\ pc' = IF Len(config) = 0 THEN "exited" ELSE "init"
  /\ UNCHANGED <<env, unit, config, mgrVars, stopChan, wg, loopVars, tickerVars,
                 initialPc, tickerPc, countVars, now>>

\* Mutant of MainInitialize: the error of Initialize is not checked.
MainInitializeIgnoresError ==
  /\ pc = "init"
  /\ Initialize
  /\ pc' = "start"
  /\ UNCHANGED <<env, unit, config, stopChan, wg, loopVars, tickerVars,
                 initialPc, tickerPc, countVars, now>>

MainInitialize ==
  /\ pc = "init"
  /\ Initialize
  /\ pc' = IF initErr' = Nil THEN "start" ELSE "fatal"
  /\ UNCHANGED <<env, unit, config, stopChan, wg, loopVars, tickerVars,
                 initialPc, tickerPc, countVars, now>>

MainStart ==
  /\ pc = "start"
  /\ Start
  /\ pc' = "running"
  /\ UNCHANGED <<env, unit, config, mgrVars, stopChan, tickerVars,
                 initialPc, tickerPc, countVars, now>>

\* A termination signal arrives and main calls Stop.
MainSignalStop ==
  /\ pc = "running"
  /\ StopClose
  /\ pc' = "wgwait"
  /\ UNCHANGED <<env, unit, config, mgrVars, wg, loopVars, tickerVars,
                 initialPc, tickerPc, countVars, now>>

MainStopReturns ==
  /\ pc = "wgwait"
  /\ StopWaitReturns
  /\ pc' = "stopped"
  /\ UNCHANGED <<env, unit, config, mgrVars, stopChan, wg, loopVars, tickerVars,
                 initialPc, tickerPc, countVars, now>>

\* main returns: the process and all its goroutines end.
MainExit ==
  /\ pc = "stopped"
  /\ pc' = "exited"
  /\ UNCHANGED <<env, unit, config, mgrVars, stopChan, wg, loopVars, tickerVars,
                 initialPc, tickerPc, countVars, now>>

\* The process is still running its goroutines: main has not returned, and
\* no goroutine has died of a panic, which ends the process.
Alive == pc \notin {"exited", "fatal", "panicked"}

\* ------------------------------------------------------------- goroutines

\* Mutant of TickerPeriod: every ticker has the default period.
TickerPeriodShared(s) == LoopDefaultInterval

\* The period healthcheckLoop gives a scraper's ticker, in seconds.
TickerPeriod(s) ==
  IF GetScrapeInterval(s) <= 0 THEN LoopDefaultInterval
                               ELSE GetScrapeInterval(s)

\* Mutant of LoopSpawn: no initial healthcheck, the first check waits for the
\* first tick.
LoopSpawnNoInitial ==
  /\ Alive
  /\ loopPc = "range"
  /\ loopIdx <= Len(scrapers)
  /\ tickerStart' = [tickerStart EXCEPT ![loopIdx] = now]
  /\ tickerStopped' = [tickerStopped EXCEPT ![loopIdx] = FALSE]
  /\ tickBuf' = [tickBuf EXCEPT ![loopIdx] = FALSE]
  /\ tickerPc' = [tickerPc EXCEPT ![loopIdx] = "select"]
  /\ loopIdx' = loopIdx + 1
  /\ UNCHANGED <<env, unit, pc, config, mgrVars, stopChan, wg, loopPc,
                 initialPc, countVars, now>>

\* healthcheckLoop, one iteration of the range over m.scrapers: the ticker
\* (a new one, running, its channel empty), the goroutine of the initial
\* healthcheck, the ticker goroutine.
LoopSpawn ==
  /\ Alive
  /\ loopPc = "range"
  /\ loopIdx <= Len(scrapers)
  /\ tickerStart' = [tickerStart EXCEPT ![loopIdx] = now]
  /\ tickerStopped' = [tickerStopped EXCEPT ![loopIdx] = FALSE]
  /\ tickBuf' = [tickBuf EXCEPT ![loopIdx] = FALSE]
  /\ initialPc' = [initialPc EXCEPT ![loopIdx] = "runnable"]
  /\ tickerPc' = [tickerPc EXCEPT ![loopIdx] = "select"]
  /\ loopIdx' = loopIdx + 1
  /\ UNCHANGED <<env, unit, pc, config, mgrVars, stopChan, wg, loopPc,
                 countVars, now>>

\* Mutant of LoopRecvStop: no deferred function stops the tickers, the loop
\* returns through wg.Done alone.
LoopRecvStopLeavesTickers ==
  /\ Alive
  /\ loopPc = "range"
  /\ loopIdx > Len(scrapers)
  /\ stopChan
  /\ loopPc' = "deferDone"
  /\ UNCHANGED <<env, unit, pc, config, mgrVars, stopChan, wg, loopIdx,
                 tickerVars, initialPc, tickerPc, countVars, now>>

\* healthcheckLoop: the receive from stopChan after the range.
LoopRecvStop ==
  /\ Alive
  /\ loopPc = "range"
  /\ loopIdx > Len(scrapers)
  /\ stopChan
  /\ loopPc' = "deferTickers"
  /\ UNCHANGED <<env, unit, pc, config, mgrVars, stopChan, wg, loopIdx,
                 tickerVars, initialPc, tickerPc, countVars, now>>

\* healthcheckLoop's deferred function: every ticker of the map is stopped.
LoopStopTickers ==
  /\ Alive
  /\ loopPc = "deferTickers"
  /\ tickerStopped' = [p \in Slots |-> tickerStart[p] >= 0]
  /\ loopPc' = "deferDone"
  /\ UNCHANGED <<env, unit, pc, config, mgrVars, stopChan, wg, loopIdx,
                 tickerStart, tickBuf, initialPc, tickerPc, countVars, now>>

\* healthcheckLoop's deferred wg.Done().
LoopWgDone ==
  /\ Alive
  /\ loopPc = "deferDone"
  /\ wg' = wg - 1
  /\ loopPc' = "returned"
  /\ UNCHANGED <<env, unit, pc, config, mgrVars, stopChan, loopIdx,
                 tickerVars, initialPc, tickerPc, countVars, now>>

\* Whether scraper p's ticker sends at second t.
Fires(p, t) ==
  /\ p \in Probes
  /\ tickerStart[p] >= 0
  /\ ~tickerStopped[p]
  /\ t > tickerStart[p]
  /\ (t - tickerStart[p]) % TickerPeriod(scrapers[p]) = 0

\* A second passes; a ticker that is due sends unless its slot is full.  The
\* range over m.scrapers makes no blocking call and is over within the first
\* second.
ClockTick ==
  /\ Alive
  /\ loopPc # "none"
  /\ loopIdx > Len(scrapers)
  /\ now < MaxTime
  /\ now' = now + 1
  /\ tickBuf' = [p \in Slots |-> tickBuf[p] \/ Fires(p, now + 1)]
  /\ UNCHANGED <<env, unit, pc, config, mgrVars, stopChan, wg, loopVars,
                 tickerStart, tickerStopped, initialPc, tickerPc, countVars>>

\* The goroutines that run runSingleHealthcheck for a scraper.
Goroutines == {"initial", "ticker"}

PcOf(g, p) == IF g = "initial" THEN initialPc[p] ELSE tickerPc[p]

\* Mutant: the goroutine ends with the check.
AfterCheckReturns(g) == "returned"

\* Where goroutine g is once runSingleHealthcheck returns.
AfterCheck(g) == IF g = "initial" THEN "returned" ELSE "select"

SetPc(g, p, v) ==
  IF g = "initial"
    THEN /\ initialPc' = [initialPc EXCEPT ![p] = v]
         /\ UNCHANGED tickerPc
    ELSE /\ tickerPc' = [tickerPc EXCEPT ![p] = v]
         /\ UNCHANGED initialPc

\* Mutant of TickerCheck: one check at a time across all scrapers.
TickerCheckSerialized(p) ==
  /\ Alive
  /\ p \in Probes
  /\ tickerPc[p] = "select"
  /\ tickBuf[p]
  /\ \A q \in Probes \ {p} :
       /\ initialPc[q] \notin {"scrape", "ping"}
       /\ tickerPc[q] \notin {"scrape", "ping"}
  /\ tickBuf' = [tickBuf EXCEPT ![p] = FALSE]
  /\ SetPc("ticker", p, "scrape")
  /\ checksStarted' = [checksStarted EXCEPT ![p] = @ + 1]
  /\ UNCHANGED <<env, unit, pc, config, mgrVars, stopChan, wg, loopVars,
                 tickerStart, tickerStopped, unnotified, pingReq, now>>

\* The goroutine of the initial healthcheck enters runSingleHealthcheck.
InitialCheck(p) ==
  /\ Alive
  /\ p \in Probes
  /\ initialPc[p] = "runnable"
  /\ SetPc("initial", p, "scrape")
  /\ checksStarted' = [checksStarted EXCEPT ![p] = @ + 1]
  /\ UNCHANGED <<env, unit, pc, config, mgrVars, stopChan, wg, loopVars,
                 tickerVars, unnotified, pingReq, now>>

\* Mutant of TickerCheck: the check of a tick runs in a goroutine of its own
\* and the next tick is taken while it runs.
TickerCheckOverlaps(p) ==
  /\ Alive
  /\ p \in Probes
  /\ tickerPc[p] \in {"select", "scrape", "ping"}
  /\ tickBuf[p]
  /\ tickBuf' = [tickBuf EXCEPT ![p] = FALSE]
  /\ SetPc("ticker", p, "scrape")
  /\ checksStarted' = [checksStarted EXCEPT ![p] = @ + 1]
  /\ UNCHANGED <<env, unit, pc, config, mgrVars, stopChan, wg, loopVars,
                 tickerStart, tickerStopped, unnotified, pingReq, now>>

\* The ticker goroutine's select takes the tick and enters
\* runSingleHealthcheck.
TickerCheck(p) ==
  /\ Alive
  /\ p \in Probes
  /\ tickerPc[p] = "select"
  /\ tickBuf[p]
  /\ tickBuf' = [tickBuf EXCEPT ![p] = FALSE]
  /\ SetPc("ticker", p, "scrape")
  /\ checksStarted' = [checksStarted EXCEPT ![p] = @ + 1]
  /\ UNCHANGED <<env, unit, pc, config, mgrVars, stopChan, wg, loopVars,
                 tickerStart, tickerStopped, unnotified, pingReq, now>>

\* Mutant of TickerStop: the signal is a value that the one who receives it
\* takes out of the channel.
TickerStopTakesSignal(p) ==
  /\ Alive
  /\ p \in Probes
  /\ tickerPc[p] = "select"
  /\ stopChan
  /\ stopChan' = FALSE
  /\ SetPc("ticker", p, "returned")
  /\ UNCHANGED <<env, unit, pc, config, mgrVars, wg, loopVars,
                 tickerVars, countVars, now>>

\* The ticker goroutine's select takes the closed stopChan and returns.
TickerStop(p) ==
  /\ Alive
  /\ p \in Probes
  /\ tickerPc[p] = "select"
  /\ stopChan
  /\ SetPc("ticker", p, "returned")
  /\ UNCHANGED <<env, unit, pc, config, mgrVars, stopChan, wg, loopVars,
                 tickerVars, countVars, now>>

\* runSingleHealthcheck: the url handed to pingSuccessURL for scraper p.
PingTarget(ss, p) == GetPingURL(ss[p])

\* Mutant of PingSends: the empty url is not tested for.
PingSendsUntested(url) == ~MalformedURL(url)

\* pingSuccessURL up to httpClient.Do: whether a GET goes out.
PingSends(url) == url # "" /\ ~MalformedURL(url)

\* Whether an outcome of Scrape is a healthy result.
IsHealthy(r) == r.err = Nil /\ r.result[1].Healthy

\* Mutant of PingsOn: Healthy is not tested.
PingsOnAnyResult(r) == r.err = Nil

\* runSingleHealthcheck: whether it goes on to pingSuccessURL with the
\* outcome of Scrape (the return on err != nil, then the test of Healthy).
PingsOn(r) == r.err = Nil /\ r.result[1].Healthy

\* The scrapers the factory builds from the configuration's entries.
ConfiguredScrapers ==
  { CreateScraper(sc).scraper[1] :
      sc \in { x \in ScraperConfigs : CreateScraper(x).err = Nil } }

\* runSingleHealthcheck's call of Scrape, under its 30 s context: what it
\* returns, by scraper and by answer.
CheckOutcome ==
  [c \in ConfiguredScrapers |->
     [resp \in Responses |-> Scrape(c, CheckDeadline, resp)]]

\* Mutant of ScrapeReturns: a check that does not end healthy doubles the
\* interval of its scraper.
ScrapeReturnsBacksOff(g, p, resp) ==
  /\ Alive
  /\ p \in Probes
  /\ PcOf(g, p) = "scrape"
  /\ LET r == CheckOutcome[scrapers[p]][resp]
     IN /\ unnotified' =
             [unnotified EXCEPT
                ![p] = @ + (IF IsHealthy(r) THEN 1 ELSE 0)
                         - (IF PingsOn(r) THEN 1 ELSE 0)]
        /\ scrapers' =
             IF IsHealthy(r) THEN scrapers
             ELSE [scrapers EXCEPT ![p].scrapeIntervalSeconds = 2 * @]
        /\ IF PingsOn(r) /\ PingSends(PingTarget(scrapers, p))
             THEN /\ pingReq' =
                       [pingReq EXCEPT ![g][p] = PingTarget(scrapers, p)]
                  /\ SetPc(g, p, "ping")
             ELSE /\ SetPc(g, p, AfterCheck(g))
                  /\ UNCHANGED pingReq
  /\ UNCHANGED <<env, unit, pc, config, initResult, initErr, stopChan, wg,
                 loopVars, tickerVars, checksStarted, now>>

\* runSingleHealthcheck from the return of Scrape on: the error or the
\* result is logged and a healthy result goes to pingSuccessURL, which
\* returns at once or issues its GET.
ScrapeReturns(g, p, resp) ==
  /\ Alive
  /\ p \in Probes
  /\ PcOf(g, p) = "scrape"
  /\ LET r == CheckOutcome[scrapers[p]][resp]
     IN /\ unnotified' =
             [unnotified EXCEPT
                ![p] = @ + (IF IsHealthy(r) THEN 1 ELSE 0)
                         - (IF PingsOn(r) THEN 1 ELSE 0)]
        /\ IF PingsOn(r) /\ PingSends(PingTarget(scrapers, p))
             THEN /\ pingReq' =
                       [pingReq EXCEPT ![g][p] = PingTarget(scrapers, p)]
                  /\ SetPc(g, p, "ping")
             ELSE /\ SetPc(g, p, AfterCheck(g))
                  /\ UNCHANGED pingReq
  /\ UNCHANGED <<env, unit, pc, config, mgrVars, stopChan, wg, loopVars,
                 tickerVars, checksStarted, now>>

\* pingSuccessURL: httpClient.Do returns, with a response or an error; either
\* is logged and runSingleHealthcheck returns.
PingReturns(g, p) ==
  /\ Alive
  /\ p \in Probes
  /\ PcOf(g, p) = "ping"
  /\ SetPc(g, p, AfterCheck(g))
  /\ pingReq' = [pingReq EXCEPT ![g][p] = ""]
  /\ UNCHANGED <<env, unit, pc, config, mgrVars, stopChan, wg, loopVars,
                 tickerVars, checksStarted, unnotified, now>>

\* A step of a goroutine of the Manager.
GoroutineStep ==
  \/ LoopSpawn
  \/ LoopRecvStop
  \/ LoopStopTickers
  \/ LoopWgDone
  \/ \E p \in Slots : InitialCheck(p)
  \/ \E p \in Slots : TickerCheck(p)
  \/ \E p \in Slots : TickerStop(p)
  \/ \E g \in Goroutines, p \in Slots, resp \in Responses :
       ScrapeReturns(g, p, resp)
  \/ \E g \in Goroutines, p \in Slots : PingReturns(g, p)

GoroutineNext == GoroutineStep \/ ClockTick

MainNext ==
  \/ MainLoadConfig
  \/ MainValidate
  \/ MainInitialize
  \/ MainStart
  \/ MainSignalStop
  \/ MainStopReturns
  \/ MainExit

Next == MainNext \/ GoroutineNext

Spec == Init /\ [][Next]_vars

\* The scheduler runs a goroutine that can take a step: healthcheckLoop makes
\* no blocking call before its receive from stopChan, and Stop returns once
\* the WaitGroup is at zero.  A Scrape or a ping in flight is given no
\* fairness: it may take arbitrarily long.
Fairness ==
  /\ WF_vars(LoopSpawn)
  /\ WF_vars(LoopRecvStop)
  /\ WF_vars(LoopStopTickers)
  /\ WF_vars(LoopWgDone)
  /\ WF_vars(MainStopReturns)

FairSpec == Init /\ [][Next]_vars /\ Fairness

\* ------------------------------------------------- a client of the Manager

\* A caller that, as the package's tests do, builds the Config itself and
\* calls Initialize, Start and Stop in turn, whatever Initialize returns.
InitAPI ==
  /\ env = [set |-> FALSE, wellFormed |-> TRUE, list |-> << >>]
  /\ unit = NoUnit
  /\ pc = "created"
  /\ config \in ConfigLists
  /\ InitManager

ClientInitialize ==
  /\ pc = "created"
  /\ Initialize
  /\ pc' = "initialized"
  /\ UNCHANGED <<env, unit, config, stopChan, wg, loopVars, tickerVars,
                 initialPc, tickerPc, countVars, now>>

ClientStart ==
  /\ pc = "initialized"
  /\ Start
  /\ pc' = "running"
  /\ UNCHANGED <<env, unit, config, mgrVars, stopChan, tickerVars,
                 initialPc, tickerPc, countVars, now>>

ClientStop ==
  /\ pc = "running"
  /\ StopClose
  /\ pc' = "wgwait"
  /\ UNCHANGED <<env, unit, config, mgrVars, wg, loopVars, tickerVars,
                 initialPc, tickerPc, countVars, now>>

ClientStopReturns ==
  /\ pc = "wgwait"
  /\ StopWaitReturns
  /\ pc' = "stopped"
  /\ UNCHANGED <<env, unit, config, mgrVars, stopChan, wg, loopVars, tickerVars,
                 initialPc, tickerPc, countVars, now>>

ClientNext ==
  \/ ClientInitialize
  \/ ClientStart
  \/ ClientStop
  \/ ClientStopReturns

NextAPI == ClientNext \/ GoroutineNext

SpecAPI == InitAPI /\ [][NextAPI]_vars

\* The scheduler runs a goroutine that can take a step, and a check in
\* flight in a ticker goroutine comes to its end: Scrape is cut short by its
\* time limits and the GET of pingSuccessURL by its own.  No fairness is
\* given to the taking of a tick.
FairnessAPI ==
  /\ WF_vars(LoopSpawn)
  /\ \A p \in Slots :
       /\ WF_vars(TickerStop(p))
       /\ WF_vars(\E resp \in Responses : ScrapeReturns("ticker", p, resp))
       /\ WF_vars(PingReturns("ticker", p))

FairSpecAPI == InitAPI /\ [][NextAPI]_vars /\ FairnessAPI

\* ------------------------------------------ checks that complete promptly

\* Seconds the clock runs for when every check is prompt.
PromptHorizon == MaxTime + 1

\* No goroutine has anything left to do before the next tick: the initial
\* checks have returned and every ticker goroutine is at its select with no
\* tick to take, or has returned.
Quiescent ==
  /\ loopIdx > Len(scrapers)
  /\ \A p \in Probes :
       /\ initialPc[p] = "returned"
       /\ \/ tickerPc[p] = "returned"
          \/ tickerPc[p] = "select" /\ ~tickBuf[p]

\* A second passes, as in ClockTick, once the goroutines have done all that
\* the second before it gave them to do: every check takes less than the
\* second and every goroutine is scheduled within it.
ClockTickPrompt ==
  /\ Alive
  /\ loopPc # "none"
  /\ Quiescent
  /\ now < PromptHorizon
  /\ now' = now + 1
  /\ tickBuf' = [p \in Slots |-> tickBuf[p] \/ Fires(p, now + 1)]
  /\ UNCHANGED <<env, unit, pc, config, mgrVars, stopChan, wg, loopVars,
                 tickerStart, tickerStopped, initialPc, tickerPc, countVars>>

NextPrompt == ClientNext \/ GoroutineStep \/ ClockTickPrompt

SpecPrompt == InitAPI /\ [][NextPrompt]_vars

\* ------------------------------------------------- one scraper, more ticks

\* Seconds the clock runs for on a Manager of one scraper.
LateHorizon == MaxTime + 2

\* A second passes, as in ClockTick, after the first MaxTime seconds.
ClockTickLate ==
  /\ Alive
  /\ loopPc # "none"
  /\ loopIdx > Len(scrapers)
  /\ now >= MaxTime
  /\ now < LateHorizon
  /\ now' = now + 1
  /\ tickBuf' = [p \in Slots |-> tickBuf[p] \/ Fires(p, now + 1)]
  /\ UNCHANGED <<env, unit, pc, config, mgrVars, stopChan, wg, loopVars,
                 tickerStart, tickerStopped, initialPc, tickerPc, countVars>>

\* The Manager has one entry in its configuration.
InitOne == InitAPI /\ Len(config) = 1

NextOne == ClientNext \/ GoroutineNext \/ ClockTickLate

SpecOne == InitOne /\ [][NextOne]_vars

\* --------------------------------------- a client that calls a second time

\* Every goroutine an earlier Start has launched has come to its end.
GoroutinesEnded ==
  /\ loopPc \in {"none", "returned"}
  /\ \A p \in Slots :
       /\ initialPc[p] \in {"unspawned", "returned"}
       /\ tickerPc[p] \in {"unspawned", "returned"}

\* Initialize called a second time before Start, on a configuration short
\* enough for m.scrapers to hold what the call appends.
ClientInitializeAgain ==
  /\ pc = "initialized"
  /\ Len(scrapers) <= Len(config)
  /\ Len(scrapers) + Len(config) <= MaxSpecs
  /\ Initialize
  /\ UNCHANGED <<env, unit, pc, config, stopChan, wg, loopVars, tickerVars,
                 initialPc, tickerPc, countVars, now>>

\* Start called a second time, after Stop has returned and the goroutines
\* of the first Start have ended with no more than the initial check of each
\* scraper.
ClientStartAgain ==
  /\ pc = "stopped"
  /\ GoroutinesEnded
  /\ \A p \in Probes : checksStarted[p] <= 1
  /\ Start
  /\ UNCHANGED <<env, unit, pc, config, mgrVars, stopChan, tickerVars,
                 initialPc, tickerPc, countVars, now>>

\* Stop is called once more after it has returned.
ClientStopAgain ==
  /\ pc = "stopped"
  /\ pc' = "stopping"
  /\ UNCHANGED <<env, unit, config, mgrVars, stopChan, wg, loopVars, tickerVars,
                 initialPc, tickerPc, countVars, now>>

\* Mutant of StopPanics: the signal is a value sent on stopChan, which waits
\* for a goroutine to receive it.
StopSendsSignal ==
  \/ \E p \in Probes : tickerPc[p] = "select"
  \/ loopPc = "range" /\ loopIdx > Len(scrapers)

\* Manager.Stop on a Manager whose stopChan is closed: close(m.stopChan)
\* panics at once, whatever the goroutines are doing.
StopPanics == stopChan

\* The panic of the second Stop: nothing recovers it, wg.Wait is not reached
\* and the process ends.
ClientStopAgainPanics ==
  /\ pc = "stopping"
  /\ StopPanics
  /\ pc' = "panicked"
  /\ UNCHANGED <<env, unit, config, mgrVars, stopChan, wg, loopVars, tickerVars,
                 initialPc, tickerPc, countVars, now>>

ClientAgainNext ==
  \/ ClientInitializeAgain
  \/ ClientStartAgain
  \/ ClientStopAgain
  \/ ClientStopAgainPanics

NextCalls == ClientNext \/ ClientAgainNext \/ GoroutineNext

\* The Manager of the second calls has at most one entry in its
\* configuration.
InitCalls == InitAPI /\ Len(config) <= 1

SpecCalls == InitCalls /\ [][NextCalls]_vars

\* ---------------------------------------- the functions called one by one

\* Largest interval, in seconds, an entry is given here.
MaxInterval == 2

\* Most calls of runSingleHealthcheck the caller makes on its scraper.
MaxChecks == 2

\* The entries the factory is handed: the known type, a near miss of it and
\* the empty one; good and malformed urls; no ping url; intervals around zero.
AnyScraperConfigs ==
  [Type : {CloudflaredType, "Cloudflared-Tunnel-Connector", ""},
   ScrapeURL : {"http://a/ready", ":bad"},
   PingURL : {"", "http://hc/a", ":bad"},
   ScrapeIntervalSeconds : -1..MaxInterval]

\* Seconds after which headers or body come: at once, past the client's
\* Timeout but within the deadline of the check, never.
Delays == {0, 20, Never}

AnyResponses ==
  { [transport |-> "refused", headersAfter |-> 0, bodyAfter |-> 0,
     statusCode |-> 0, parses |-> FALSE,
     status |-> 0, readyConnections |-> 0] }
  \cup [transport : {"ok"}, headersAfter : Delays, bodyAfter : Delays,
        statusCode : {StatusOK, 500}, parses : BOOLEAN,
        status : {200, 503}, readyConnections : {0, 4}]

\* A caller with an entry in hand and nothing called yet.
InitUnit ==
  /\ env = [set |-> FALSE, wellFormed |-> TRUE, list |-> << >>]
  /\ pc = "unit"
  /\ config = << >>
  /\ InitManager
  /\ \E sc \in AnyScraperConfigs :
       unit = [step |-> "new", spec |-> sc,
               created |-> [scraper |-> << >>, err |-> Nil],
               resp |-> << >>, scraped |-> << >>, elapsed |-> 0,
               pinged |-> FALSE, url |-> "", sent |-> FALSE,
               pingErrors |-> 0, round |-> 0]

\* The caller has the factory build the scraper and, as
\* TestCloudflaredTunnelScraper_Scrape_Timeout does, may set the Timeout of
\* its client.
UnitCreateScraper(timeout) ==
  /\ unit.step = "new"
  /\ LET r == CreateScraper(unit.spec)
     IN unit' =
          [unit EXCEPT
             !.step = IF r.err = Nil THEN "created" ELSE "rejected",
             !.created =
               IF r.err = Nil
                 THEN [r EXCEPT !.scraper[1].timeout = timeout]
                 ELSE r]
  /\ UNCHANGED <<env, pc, config, mgrVars, stopChan, wg, loopVars,
                 tickerVars, initialPc, tickerPc, countVars, now>>

\* The caller runs runSingleHealthcheck on its scraper, up to the return of
\* pingSuccessURL or to the GET it issues.
UnitRunSingleHealthcheck(resp) ==
  /\ unit.step \in {"created", "returned"}
  /\ unit.round < MaxChecks
  /\ LET c == unit.created.scraper[1]
         r == Scrape(c, CheckDeadline, resp)
         url == GetPingURL(c)
     IN unit' =
          [unit EXCEPT
             !.step = IF PingsOn(r) /\ PingSends(url) THEN "pinging"
                                                      ELSE "returned",
             !.resp = <<resp>>,
             !.scraped = <<r>>,
             !.elapsed = ScrapeElapsed(c, CheckDeadline, resp),
             !.pinged = PingsOn(r),
             !.url = IF PingsOn(r) THEN url ELSE "",
             !.sent = PingsOn(r) /\ PingSends(url),
             !.round = @ + 1]
  /\ UNCHANGED <<env, pc, config, mgrVars, stopChan, wg, loopVars,
                 tickerVars, initialPc, tickerPc, countVars, now>>

\* What comes of the GET of pingSuccessURL: a response with some status, or
\* an error of httpClient.Do (the last one when the 10 s run out).
PingOutcomes == {"200", "500", "refused", "deadline exceeded"}

\* httpClient.Do returned an error.
PingError(outcome) == outcome \in {"refused", "deadline exceeded"}

\* Mutant of UnitPingReturns: a GET that failed is issued again.
UnitPingRetries(outcome) ==
  /\ unit.step = "pinging"
  /\ unit' = [unit EXCEPT
                !.step = IF PingError(outcome) THEN "pinging" ELSE "returned",
                !.pingErrors = @ + (IF PingError(outcome) THEN 1 ELSE 0)]
  /\ UNCHANGED <<env, pc, config, mgrVars, stopChan, wg, loopVars,
                 tickerVars, initialPc, tickerPc, countVars, now>>

\* The GET of pingSuccessURL returns and with it runSingleHealthcheck.
UnitPingReturns(outcome) ==
  /\ unit.step = "pinging"
  /\ unit' = [unit EXCEPT
                !.step = "returned",
                !.pingErrors = @ + (IF PingError(outcome) THEN 1 ELSE 0)]
  /\ UNCHANGED <<env, pc, config, mgrVars, stopChan, wg, loopVars,
                 tickerVars, initialPc, tickerPc, countVars, now>>

NextUnit ==
  \/ \E timeout \in {ClientTimeout, NoTimeout} : UnitCreateScraper(timeout)
  \/ \E resp \in AnyResponses : UnitRunSingleHealthcheck(resp)
  \/ \E outcome \in PingOutcomes : UnitPingReturns(outcome)

SpecUnit == InitUnit /\ [][NextUnit]_vars

\* ------------------------------------------------------------------ claims

\* A runSingleHealthcheck is in flight in goroutine g of scraper p.
InCheck(g, p) == PcOf(g, p) \in {"scrape", "ping"}

\* C1: when Stop() has returned, every per-scraper ticker goroutine has
\* observed the closed stopChan and returned.
C1_StopJoinsTickerGoroutines ==
  pc = "stopped" => \A p \in Probes : tickerPc[p] = "returned"

\* C2: once Stop() is waiting it eventually returns, whatever checks or
\* pings are in flight and however long they take.
C2_StopEventuallyReturns == (pc = "wgwait") ~> (pc = "stopped")

\* C2 witness: Stop() has returned while a check is still in flight.
C2_Witness ==
  /\ pc = "stopped"
  /\ \E g \in Goroutines, p \in Probes : InCheck(g, p)

\* C3: a check that returns, whatever its outcome, leaves the ticker
\* goroutine back at its select; the goroutine returns only from the select,
\* on the closed stopChan; and no step after Initialize changes m.scrapers.
C3_CheckOutcomeKeepsTask ==
  [][\A p \in Slots :
       /\ (InCheck("ticker", p) /\ tickerPc'[p] \notin {"scrape", "ping"})
            => tickerPc'[p] = "select"
       /\ (tickerPc[p] # "returned" /\ tickerPc'[p] = "returned")
            => (tickerPc[p] = "select" /\ stopChan)
       /\ (initResult # "none" => scrapers' = scrapers)]_vars

\* C3 witness: a scraper whose every Scrape returns an error has had its
\* initial and its tick-driven check, and its ticker goroutine is back at the
\* select with stopChan open.
C3_Witness ==
  \E p \in Probes :
    /\ MalformedURL(scrapers[p].scrapeURL)
    /\ checksStarted[p] = 2
    /\ initialPc[p] = "returned"
    /\ tickerPc[p] = "select"
    /\ ~stopChan

\* C4: while a check of scraper p is in flight, a tick waiting for another
\* scraper q can be taken by q's ticker goroutine, and no step of p's
\* goroutines touches q's tick, goroutines or count of checks.
C4_SchedulesIndependent ==
  /\ [](\A p, q \in Probes :
          (/\ p # q
           /\ Alive
           /\ \E g \in Goroutines : InCheck(g, p)
           /\ tickerPc[q] = "select"
           /\ tickBuf[q])
          => ENABLED TickerCheck(q))
  /\ [][\A p, q \in Slots :
          (/\ p # q
           /\ p < loopIdx
           /\ initialPc'[p] # initialPc[p] \/ tickerPc'[p] # tickerPc[p])
          => /\ tickBuf'[q] = tickBuf[q]
             /\ tickerPc'[q] = tickerPc[q]
             /\ initialPc'[q] = initialPc[q]
             /\ checksStarted'[q] = checksStarted[q]]_vars

\* C4 witness: the tick-driven checks of two scrapers are in flight together.
C4_Witness ==
  \E p, q \in Probes :
    p # q /\ InCheck("ticker", p) /\ InCheck("ticker", q)

\* The ticks scraper p's ticker has had time to send.
TicksDue(p) ==
  IF tickerStart[p] < 0 THEN 0
  ELSE (now - tickerStart[p]) \div TickerPeriod(scrapers[p])

\* 1 once the goroutine of p's initial healthcheck is in runSingleHealthcheck.
InitialStarted(p) ==
  IF initialPc[p] \in {"scrape", "ping", "returned"} THEN 1 ELSE 0

C6_PingOnlyWhenHealthy ==
  \A p \in Probes :
    /\ unnotified[p] >= 0
    /\ \A g \in Goroutines :
         /\ pingReq[g][p] # "" => PcOf(g, p) = "ping"
         /\ PcOf(g, p) = "ping" => pingReq[g][p] = GetPingURL(scrapers[p])

\* C6 witness: a ping is in flight.
C6_Witness == \E g \in Goroutines, p \in Probes : PcOf(g, p) = "ping"

\* C7: once Stop() has returned, no runSingleHealthcheck begins.
C7_NoCheckAfterStopReturns ==
  [][pc = "stopped" => checksStarted' = checksStarted]_vars

\* C8: after Initialize has returned an error the Manager holds no scraper,
\* and a Start() that follows checks none.
C8_InitializeAllOrNothing ==
  initResult = "error" =>
    /\ Len(scrapers) = 0
    /\ \A p \in Slots : checksStarted[p] = 0

\* Entries of the configuration whose type the factory does not know.
UnknownEntries == { i \in 1..Len(config) : config[i].Type # CloudflaredType }

\* The process has started the healthcheck loop or a check.
StartedAnything ==
  \/ loopPc # "none"
  \/ \E p \in Slots :
       \/ initialPc[p] # "unspawned"
       \/ tickerPc[p] # "unspawned"
       \/ checksStarted[p] > 0

\* C9: in the process, the loop and the checks start only after the
\* configuration loaded, held at least one entry and Initialize succeeded on
\* all of them; a malformed list and an unknown type end in the fatal exit,
\* an empty or unset list in the plain exit.
C9_StartupGuards ==
  LET loaded == NewConfig(env)
  IN /\ StartedAnything =>
          /\ loaded.ok
          /\ Len(loaded.Scrapers) > 0
          /\ \A i \in 1..Len(loaded.Scrapers) :
               loaded.Scrapers[i].Type = CloudflaredType
          /\ initResult = "ok"
     /\ ~loaded.ok => pc \in {"load", "fatal"}
     /\ (loaded.ok /\ Len(loaded.Scrapers) = 0) =>
          pc \in {"load", "validate", "exited"}
     /\ (loaded.ok /\ \E i \in 1..Len(loaded.Scrapers) :
                        loaded.Scrapers[i].Type # CloudflaredType) =>
          pc \in {"load", "validate", "init", "fatal"}

\* C9 witness: startup ended fatally on an unknown type that followed a
\* known one.
C9_Witness ==
  /\ pc = "fatal"
  /\ initResult = "error"
  /\ Len(scrapers) >= 1

\* C10: Initialize returns an error exactly when an entry has an unknown
\* type; the error names the first such entry; on success m.scrapers holds
\* one scraper per entry, in the order of the configuration.
C10_InitializeResult ==
  initResult # "none" =>
    /\ (initResult = "error") <=> (UnknownEntries # {})
    /\ (initResult = "error") <=> (initErr # Nil)
    /\ UnknownEntries # {} =>
         LET k == CHOOSE i \in UnknownEntries :
                    \A j \in UnknownEntries : i <= j
         IN Contains(initErr, <<"unknown scraper type: ", config[k].Type>>)
    /\ UnknownEntries = {} =>
         /\ Len(scrapers) = Len(config)
         /\ \A i \in 1..Len(config) :
              /\ scrapers[i].scrapeURL = config[i].ScrapeURL
              /\ scrapers[i].pingURL = config[i].PingURL

\* C10 witness: Initialize failed on a list of two entries of unknown type.
C10_Witness ==
  /\ initResult = "error"
  /\ Len(config) = 2
  /\ UnknownEntries = {1, 2}

\* The step of the caller is past the factory.
FactoryCalled == unit.step \notin {"none", "new"}

\* C11: the factory returns a scraper and no error exactly when the entry's
\* type is the literal "cloudflared-tunnel-connector", and Type(),
\* GetPingURL() and GetScrapeInterval() of the scraper are then those of the
\* entry (30 for an interval that is not positive); for any other type it
\* returns no scraper and an error that contains the type.
C11_FactoryBuild ==
  FactoryCalled =>
    LET sc == unit.spec
        r == unit.created
    IN /\ (sc.Type = "cloudflared-tunnel-connector")
            <=> (Len(r.scraper) = 1 /\ r.err = Nil)
       /\ Len(r.scraper) = 1 =>
            /\ ScraperType(r.scraper[1]) = sc.Type
            /\ GetPingURL(r.scraper[1]) = sc.PingURL
            /\ GetScrapeInterval(r.scraper[1]) =
                 IF sc.ScrapeIntervalSeconds <= 0
                   THEN 30 ELSE sc.ScrapeIntervalSeconds
       /\ sc.Type # "cloudflared-tunnel-connector" =>
            /\ Len(r.scraper) = 0
            /\ r.err # Nil
            /\ Contains(r.err, <<sc.Type>>)

\* C11 witness: the factory has rejected a type that differs from the known
\* one in the case of its letters only.
C11_Witness ==
  /\ unit.step = "rejected"
  /\ unit.spec.Type = "Cloudflared-Tunnel-Connector"
  /\ unit.created.err # Nil

\* C12: the interval of every scraper of the Manager is 30 when the entry's
\* interval is zero or less and the entry's interval otherwise; it is
\* positive, and the period healthcheckLoop gives the ticker is that interval.
C12_IntervalDefault ==
  \A p \in Probes :
    LET n == config[p].ScrapeIntervalSeconds
        c == scrapers[p]
    IN /\ n <= 0 => GetScrapeInterval(c) = 30
       /\ n > 0 => GetScrapeInterval(c) = n
       /\ GetScrapeInterval(c) > 0
       /\ TickerPeriod(c) = GetScrapeInterval(c)

\* C12 witness: the ticker of a scraper whose entry has no positive interval
\* runs, beside one whose entry has.
C12_Witness ==
  \E p, q \in Probes :
    /\ config[p].ScrapeIntervalSeconds <= 0
    /\ config[q].ScrapeIntervalSeconds > 0
    /\ tickerStart[p] >= 0
    /\ tickerStart[q] >= 0

\* The caller's last runSingleHealthcheck has had Scrape return.
Scraped == unit.step \in {"pinging", "returned"} /\ Len(unit.scraped) = 1

\* The whole of the answer reaches the client within the shortest of its
\* time limits.
Prompt(resp) ==
  /\ resp.headersAfter # Never
  /\ resp.bodyAfter # Never
  /\ resp.headersAfter + resp.bodyAfter < ClientTimeout

\* C13: Scrape follows the decision table in the order of its rows: the
\* result is healthy only if the transport succeeded, the HTTP status is
\* 200, the body parsed, the parsed status is 200 and readyConnections > 0,
\* and it is healthy whenever all of that holds of an answer that came in
\* time; otherwise it is unhealthy with the message of the first row that
\* fails; a status other than 200 gives "HTTP status" whatever the body is.
C13_DecisionTable ==
  (Scraped /\ unit.scraped[1].err = Nil) =>
    LET resp == unit.resp[1]
        res == unit.scraped[1].result[1]
        url == unit.spec.ScrapeURL
        sound == /\ resp.transport = "ok"
                 /\ resp.statusCode = 200
                 /\ resp.parses
                 /\ resp.status = 200
                 /\ resp.readyConnections > 0
    IN /\ res.Healthy => sound
       /\ (Prompt(resp) /\ sound) =>
            /\ res.Healthy
            /\ res.Message = <<"Tunnel healthy with ",
                               ToString(resp.readyConnections),
                               " ready connections">>
       /\ (Prompt(resp) /\ ~sound) =>
            /\ ~res.Healthy
            /\ IF resp.transport # "ok"
                 THEN Contains(res.Message, <<"Failed to connect to ", url>>)
               ELSE IF resp.statusCode # 200
                 THEN Contains(res.Message,
                               <<"HTTP status ", ToString(resp.statusCode),
                                 " from ", url>>)
               ELSE IF ~resp.parses
                 THEN Contains(res.Message,
                               <<"Failed to parse response from ", url>>)
               ELSE res.Message = <<"Tunnel unhealthy: status=",
                                    ToString(resp.status),
                                    ", readyConnections=",
                                    ToString(resp.readyConnections)>>
       /\ (/\ resp.transport = "ok"
           /\ resp.headersAfter # Never
           /\ resp.headersAfter < ClientTimeout
           /\ resp.statusCode # 200) =>
            /\ ~res.Healthy
            /\ Contains(res.Message, <<"HTTP status ">>)

\* C13 witness: the endpoint answered at once with status 200 and no ready
\* connection, and the result is unhealthy and says so.
C13_Witness ==
  /\ Scraped
  /\ unit.scraped[1].err = Nil
  /\ Prompt(unit.resp[1])
  /\ unit.resp[1].statusCode = 200
  /\ unit.resp[1].parses
  /\ unit.resp[1].status = 200
  /\ unit.resp[1].readyConnections = 0
  /\ ~unit.scraped[1].result[1].Healthy
  /\ Contains(unit.scraped[1].result[1].Message, <<", readyConnections=", "0">>)

\* C14: every Scrape returns either a result or an error, never both and
\* never neither; it returns the error exactly when the request cannot be
\* built; a refused connection, an answer that does not come, a status other
\* than 200 and a body that does not parse all give a result that is
\* unhealthy, and no error.
C14_ResultOrError ==
  Scraped =>
    LET resp == unit.resp[1]
        out == unit.scraped[1]
    IN /\ (Len(out.result) = 1) <=> (out.err = Nil)
       /\ Len(out.result) <= 1
       /\ (out.err # Nil) <=> (unit.spec.ScrapeURL = ":bad")
       /\ (/\ unit.spec.ScrapeURL # ":bad"
           /\ \/ resp.transport = "refused"
              \/ resp.headersAfter = Never
              \/ resp.headersAfter >= CheckDeadline
              \/ resp.statusCode # 200
              \/ ~resp.parses
              \/ resp.bodyAfter = Never) =>
            /\ out.err = Nil
            /\ Len(out.result) = 1
            /\ ~out.result[1].Healthy

\* C14 witness: Scrape has returned an unhealthy result and no error for an
\* endpoint that never answered.
C14_Witness ==
  /\ Scraped
  /\ unit.resp[1].transport = "ok"
  /\ unit.resp[1].headersAfter = Never
  /\ unit.scraped[1].err = Nil
  /\ Len(unit.scraped[1].result) = 1
  /\ ~unit.scraped[1].result[1].Healthy

\* The caller's last Scrape returned a healthy result.
ScrapedHealthy ==
  /\ Scraped
  /\ Len(unit.scraped[1].result) = 1
  /\ unit.scraped[1].result[1].Healthy

\* C15: a call of pingSuccessURL with a target that is not empty makes one
\* try at a GET and returns to its caller: the GET goes out (unless the
\* target is no url at all, and then the try ends where the request is
\* built), its return ends the call whatever came of it, no second GET
\* follows, and the checks and pings that come after an error go as the
\* first did.
C15_PingOnceNoRetry ==
  /\ [](Scraped =>
          /\ unit.sent <=>
               (ScrapedHealthy /\ unit.spec.PingURL \notin {"", ":bad"})
          /\ (unit.step = "pinging") => unit.sent
          /\ (ScrapedHealthy /\ unit.spec.PingURL # "") =>
               (unit.pinged /\ unit.url = unit.spec.PingURL))
  /\ [][unit.step = "pinging" =>
          /\ unit'.step = "returned"
          /\ unit'.round = unit.round
          /\ unit'.sent = unit.sent
          /\ unit'.created = unit.created
          /\ UNCHANGED <<mgrVars, stopChan, wg, loopVars, tickerVars,
                         initialPc, tickerPc, countVars>>]_vars

\* C15 witness: after a ping that ended in an error the caller has run its
\* next check, and the GET of that one is out.
C15_Witness ==
  /\ unit.step = "pinging"
  /\ unit.round = 2
  /\ unit.pingErrors = 1
  /\ unit.sent

\* C16: pingSuccessURL with the empty url sends nothing and changes nothing
\* of the Manager: after a healthy check of a scraper that has no ping url
\* it has been called, no GET went out and the check has returned.
C16_EmptyTargetNoop ==
  (ScrapedHealthy /\ unit.spec.PingURL = "") =>
    /\ unit.pinged
    /\ unit.url = ""
    /\ ~unit.sent
    /\ unit.step = "returned"
    /\ scrapers = << >>
    /\ ~stopChan
    /\ wg = 0
    /\ \A g \in Goroutines, p \in Slots : pingReq[g][p] = ""

\* C16 witness: a scraper without ping url has had a healthy check.
C16_Witness ==
  /\ ScrapedHealthy
  /\ unit.spec.PingURL = ""
  /\ unit.pinged
  /\ unit.step = "returned"

\* The caller's last Scrape returned because a time limit ran out: while the
\* headers were awaited, or while the body of a 200 was read.
TimedOutOnHeaders ==
  /\ Scraped
  /\ unit.spec.ScrapeURL # ":bad"
  /\ unit.resp[1].headersAfter = Never
       \/ unit.resp[1].headersAfter > unit.elapsed

TimedOutOnBody ==
  /\ Scraped
  /\ unit.spec.ScrapeURL # ":bad"
  /\ ~TimedOutOnHeaders
  /\ unit.resp[1].transport = "ok"
  /\ unit.resp[1].statusCode = 200
  /\ unit.resp[1].bodyAfter = Never
       \/ unit.resp[1].headersAfter + unit.resp[1].bodyAfter > unit.elapsed

\* C17 as stated: every Scrape of runSingleHealthcheck returns, within the
\* 30 s of its context whatever the client's own Timeout is, and one that a
\* time limit cut short returns an unhealthy result that says "Failed to
\* connect to".
C17_TimeoutFailsToConnect ==
  Scraped =>
    /\ unit.elapsed # Never
    /\ unit.elapsed <= CheckDeadline
    /\ (TimedOutOnHeaders \/ TimedOutOnBody) =>
         /\ unit.scraped[1].err = Nil
         /\ ~unit.scraped[1].result[1].Healthy
         /\ Contains(unit.scraped[1].result[1].Message,
                     <<"Failed to connect to ">>)

\* C17 as amended: every Scrape of runSingleHealthcheck returns, within the
\* 30 s of its context whatever the client's own Timeout is; one that a time
\* limit cut short returns an unhealthy result, which says "Failed to
\* connect to" when the headers had not come and "Failed to parse response
\* from" when the body of a 200 had not.
C17_DeadlineBoundsCheck ==
  Scraped =>
    /\ unit.elapsed # Never
    /\ unit.elapsed <= CheckDeadline
    /\ (TimedOutOnHeaders \/ TimedOutOnBody) =>
         /\ unit.scraped[1].err = Nil
         /\ ~unit.scraped[1].result[1].Healthy
    /\ TimedOutOnHeaders =>
         Contains(unit.scraped[1].result[1].Message,
                  <<"Failed to connect to ">>)
    /\ TimedOutOnBody =>
         Contains(unit.scraped[1].result[1].Message,
                  <<"Failed to parse response from ">>)

\* C17 witness: the client has no Timeout of its own, the endpoint never
\* answered, and Scrape returned at the deadline of the context.
C17_Witness ==
  /\ Scraped
  /\ unit.created.scraper[1].timeout = NoTimeout
  /\ unit.resp[1].headersAfter = Never
  /\ unit.elapsed = CheckDeadline
  /\ ~unit.scraped[1].result[1].Healthy

\* C18: the ticker goroutine of a scraper is never inside a check: it hands
\* each tick's check to a goroutine of its own and is back at its select,
\* where the next tick and the closed stopChan find it.
C18_TickerNeverInsideCheck ==
  \A p \in Probes :
    /\ ~InCheck("ticker", p)
    /\ (Alive /\ stopChan /\ tickerPc[p] \notin {"unspawned", "returned"})
         => ENABLED TickerStop(p)

\* C19: a check does not wait for its notification: while the GET of
\* pingSuccessURL is out, the goroutine that ran the check is not held inside
\* runSingleHealthcheck, and no tick waits behind it.
C19_CheckDoesNotAwaitPing ==
  \A g \in Goroutines, p \in Probes :
    pingReq[g][p] # "" =>
      /\ PcOf(g, p) # "ping"
      /\ ~(g = "ticker" /\ tickBuf[p])

\* C20: once stopChan is closed, every ticker goroutine healthcheckLoop
\* starts returns, however many scrapers there are, provided the goroutines
\* are scheduled and the checks in flight end.
C20_AllTickersExit ==
  stopChan ~> (\A p \in Probes : tickerPc[p] = "returned")

\* C20 witness: stopChan is closed and the ticker goroutines of two scrapers
\* have both returned, one of them after a check it ran on a tick.
C20_Witness ==
  /\ stopChan
  /\ Len(scrapers) = 2
  /\ \A p \in Probes : tickerPc[p] = "returned"
  /\ \E p \in Probes : checksStarted[p] = 2

\* C21: the Manager's lifecycle is linear with no re-entry: a repeated
\* Initialize adds no scraper to those of the configuration, and once Stop has
\* returned no call launches a healthcheckLoop or creates a ticker.
C21_LifecycleLinear ==
  /\ [](Len(scrapers) <= Len(config))
  /\ [][pc = "stopped" => wg' = wg /\ tickerStart' = tickerStart]_vars

\* C22: a second Stop, once called, is never blocked: its close of stopChan
\* can always be taken, and it ends the call (with a panic).
C22_SecondStopNotBlocked ==
  pc = "stopping" => ENABLED ClientStopAgainPanics

\* A second Stop is under way while a healthcheckLoop that a second Start
\* has launched is still running.
C22_Witness ==
  /\ pc = "stopping"
  /\ loopPc = "range"
  /\ Len(scrapers) > 0

\* C23: with prompt checks, each scraper has had, t seconds after Start, no
\* more than its initial check and one check per multiple of its own interval
\* that has passed, and has had exactly that many once the goroutines have
\* caught up with the clock, whatever the intervals of the other scrapers.
C23_ChecksPerInterval ==
  \A p \in Probes :
    /\ checksStarted[p] <= 1 + now \div GetScrapeInterval(scrapers[p])
    /\ (pc = "running" /\ Quiescent) =>
         checksStarted[p] = 1 + now \div GetScrapeInterval(scrapers[p])

\* C23 witness: two seconds after Start the scraper with the 1 s interval has
\* had three checks and the one with the 30 s interval its initial check.
C23_Witness ==
  \E p, q \in Probes :
    /\ pc = "running" /\ Quiescent /\ now = 2
    /\ GetScrapeInterval(scrapers[p]) = 1
    /\ GetScrapeInterval(scrapers[q]) = ScraperDefaultInterval
    /\ checksStarted[p] = 3
    /\ checksStarted[q] = 1

\* C24: once Initialize has returned, no check, ping, Start or Stop changes
\* m.scrapers or a field of a scraper: after an Initialize without error the
\* scrapers are those of the configuration, entry by entry, with the kind,
\* the urls and the interval (or the default) the entry gave them.
C24_ProbesNeverMutated ==
  /\ [](initResult = "ok" =>
          /\ Len(scrapers) = Len(config)
          /\ \A i \in 1..Len(config) :
               /\ ScraperType(scrapers[i]) = config[i].Type
               /\ scrapers[i].scrapeURL = config[i].ScrapeURL
               /\ GetPingURL(scrapers[i]) = config[i].PingURL
               /\ GetScrapeInterval(scrapers[i]) =
                    IF config[i].ScrapeIntervalSeconds <= 0
                      THEN ScraperDefaultInterval
                      ELSE config[i].ScrapeIntervalSeconds)
  /\ [][pc # "created" => scrapers' = scrapers]_vars

\* C24 witness: Stop has returned on a Manager of two scrapers, one of which
\* has had a check that pinged and a check on a tick.
C24_Witness ==
  /\ pc = "stopped"
  /\ initResult = "ok"
  /\ Len(scrapers) = 2
  /\ \E p \in Probes : checksStarted[p] >= 2 /\ unnotified[p] = 0

\* The keys of the details of the result Scrape has returned.
DetailKeys == DOMAIN unit.scraped[1].result[1].Details

ParsedKeys == {"status", "readyConnections", "connectorId"}

\* C25 as stated: the details of every result have the three parsed fields
\* or the single entry error.
C25_TwoShapes ==
  (Scraped /\ unit.scraped[1].err = Nil) =>
    (DetailKeys = ParsedKeys \/ DetailKeys = {"error"})

\* C25, amended: the details of every result have one of three shapes, by
\* the path Scrape took: the three parsed fields when the body was parsed,
\* the single entry error when the transport or the parsing failed, the
\* single entry status_code when the HTTP status is not 200.
C25_ThreeShapes ==
  (Scraped /\ unit.scraped[1].err = Nil) =>
    LET res == unit.scraped[1].result[1]
        url == unit.spec.ScrapeURL
    IN /\ DetailKeys \in {ParsedKeys, {"error"}, {"status_code"}}
       /\ (DetailKeys = ParsedKeys) <=>
            \/ res.Healthy
            \/ Contains(res.Message, <<"Tunnel unhealthy: status=">>)
       /\ (DetailKeys = {"error"}) <=>
            \/ Contains(res.Message, <<"Failed to connect to ", url>>)
            \/ Contains(res.Message, <<"Failed to parse response from ", url>>)
       /\ (DetailKeys = {"status_code"}) <=>
            Contains(res.Message, <<"HTTP status ">>)
       /\ (DetailKeys = {"status_code"}) =>
            /\ res.Details.status_code = unit.resp[1].statusCode
            /\ unit.resp[1].statusCode # StatusOK

\* C25 witness: the endpoint answered with a status other than 200 and the
\* details of the result are the status code alone.
C25_Witness ==
  /\ Scraped
  /\ unit.scraped[1].err = Nil
  /\ unit.resp[1].statusCode # StatusOK
  /\ DetailKeys = {"status_code"}
  /\ ~unit.scraped[1].result[1].Healthy

\* C26: the ticker goroutine of a scraper takes a tick only at its select,
\* never while it is in a check, and the goroutine of the initial check runs
\* one check: a step that begins a check of a scraper begins one check, in a
\* goroutine that has none in flight, so that at most two are in flight; a
\* tick that arrives during a check stays in the ticker's channel, which
\* holds one, until the check has returned, and the ticks taken and pending
\* never exceed the ticks sent.
C26_TickChecksNeverOverlap ==
  /\ [](\A p \in Probes :
          checksStarted[p] - InitialStarted(p)
            + (IF tickBuf[p] THEN 1 ELSE 0) <= TicksDue(p))
  /\ [][\A p \in Slots :
          /\ checksStarted'[p] # checksStarted[p] =>
               /\ checksStarted'[p] = checksStarted[p] + 1
               /\ \/ ~InCheck("initial", p) /\ InCheck("initial", p)'
                  \/ ~InCheck("ticker", p) /\ InCheck("ticker", p)'
          /\ (tickBuf[p] /\ ~tickBuf'[p]) =>
               /\ tickerPc[p] = "select"
               /\ tickerPc'[p] = "scrape"
          /\ (InCheck("ticker", p) /\ tickBuf[p]) => tickBuf'[p]
          /\ (InCheck("initial", p) /\ ~InCheck("initial", p)') =>
               initialPc'[p] = "returned"]_vars

\* C26 witness: the initial check and the check of the first tick are in
\* flight together, the second tick is pending and the third, which came
\* while the channel was full, is lost.
C26_Witness ==
  \E p \in Probes :
    /\ ~stopChan
    /\ InCheck("initial", p)
    /\ InCheck("ticker", p)
    /\ tickBuf[p]
    /\ checksStarted[p] = 2
    /\ TicksDue(p) = 3

\* C27: the deferred functions of healthcheckLoop run last in, first out:
\* wg.Done, which lets Stop return, comes after every ticker of every scraper
\* has been created and stopped; so when Stop has returned no ticker is
\* running and no tick is sent any more.
C27_TickersStoppedBeforeJoin ==
  /\ [](pc \in {"stopped", "exited"} =>
          \A p \in Probes : tickerStart[p] >= 0 /\ tickerStopped[p])
  /\ [](loopPc \in {"deferDone", "returned"} =>
          \A p \in Probes : tickerStart[p] >= 0 /\ tickerStopped[p])
  /\ [][(pc = "stopped" \/ pc = "exited") =>
          \A p \in Slots : tickBuf'[p] => tickBuf[p]]_vars

\* C27 witness: Stop has returned on a Manager of two scrapers with both
\* tickers stopped, a second after they were created.
C27_Witness ==
  /\ pc = "stopped"
  /\ Len(scrapers) = 2
  /\ now > 0
  /\ \A p \in Probes : tickerStopped[p]

====
